---- MODULE Spec2Model ----
(***************************************************************************)
(* Model of the JSON-RPC client of oli (app/src/services/backend.ts):      *)
(* the BackendService that correlates Requests and Responses by id over    *)
(* the worker's stdin/stdout, dispatches notifications, and keeps the      *)
(* subscription registry; the connection probe of spawnBackend and the     *)
(* start-up wait of cli.ts; the App component's connection flag and its    *)
(* map of live tool executions.                                            *)
(*                                                                         *)
(* Conventions: an optional JSON field or an undefined JavaScript value is *)
(* the empty sequence <<>>, a present one is the one-element sequence      *)
(* <<v>>.                                                                  *)
(***************************************************************************)
EXTENDS Integers, Sequences, FiniteSets, TLC

VARIABLES requestId, pendingRequests, subscriptions, process, stdin,
          calls, frames, ev,
          listeners,        \* EventEmitter registry of each service
          isConnected,      \* (backend as any).isConnected
          probes,           \* the checkConnection() invocations
          autoTimer,        \* the 1000 ms timer of spawnBackend
          wait,             \* the start-up wait of main()
          mainPc,           \* where main() stands
          mounted,          \* App is rendered, its effects have run
          tornDown,         \* App is unmounted, its effects are cleaned up
          backendConnected, \* App state.backendConnected
          toolExecutions,   \* App state toolExecutions
          snapshots,        \* the Map objects that were that state, oldest first
          removals,         \* pending 3000 ms removal timers, oldest first
          toolLog,          \* the updates the tracker's listeners handled
          now,              \* Date.now()
          chat              \* App state: isProcessing, messages, error, appMode

\* The service: BackendService fields and the promises of call().
service == <<requestId, pendingRequests, subscriptions, process, stdin, calls, frames>>

\* The connection supervisor of spawnBackend and main().
supervisor == <<isConnected, probes, autoTimer, wait, mainPc>>

\* The App component.
ui == <<mounted, tornDown, backendConnected, toolExecutions, snapshots, removals,
       toolLog, now, chat>>

vars == <<service, ev, listeners, supervisor, ui>>

----------------------------------------------------------------------------
(* Bounds *)

\* Number of call() invocations explored (over all services).
MaxCalls == 2

\* Number of listeners registered for one method.
MaxListeners == 2

\* Number of tool_status updates the App handles.
MaxToolEvents == 3

\* Milliseconds the clock advances over.
MaxNow == 1

\* Pieces in a text the user types.
MaxInput == 3

\* Entries of the chat history.
MaxMessages == 3

----------------------------------------------------------------------------
(* Domains of the inputs *)

\* Two BackendService instances of one process (they share requestId).
Services == {"svcA", "svcB"}

\* The service of the specifications that follow one client.
Client == "svcA"

\* Notification categories a client subscribes to.
EventTypes == {"tool_status"}

\* Methods used with a direct call().
CallMethods == {"query_model"}

\* Subscription ids a worker may grant.
SubIds == {7, 8}

\* Notification methods listeners are registered for.
Methods == {"tool_status", "log_message"}

None == <<>>
Some(v) == <<v>>

\* A JSON object as a Response's result: the two fields the client reads.
ResultObj(sub, ok) == [subscription_id |-> sub, success |-> ok]

\* The object literal {} of `response.result || {}`.
EmptyObj == ResultObj(None, None)

\* Results of subscribe ({subscription_id}) and unsubscribe ({success}).
Results == {ResultObj(Some(i), None) : i \in SubIds}
             \cup {ResultObj(None, Some(b)) : b \in BOOLEAN}

\* Two results that differ, for the calls whose result is not looked into.
SomeResults == {ResultObj(Some(7), None), ResultObj(None, Some(TRUE))}

\* error payloads {code, message}
Errors == {[code |-> -32601, message |-> "Method not found"]}

\* The id field of a parsed message: a number or JSON null.
IdNull == [null |-> TRUE, n |-> 0]
IdNum(i) == [null |-> FALSE, n |-> i]

\* Lines the worker can write on stdout, by what JSON.parse makes of them.
\*   blank     : empty or white space
\*   text      : not JSON, does not start with "{"   (e.g.  warming up)
\*   badjson   : starts with "{" but does not parse
\*   primitive : parses to a non-object (a string, a number, null)
\*   object    : parses to an object with the fields below
LineOf(kind, id, method, result, error) ==
  [kind |-> kind, id |-> id, method |-> method, result |-> result, error |-> error]

NoLine == LineOf("none", None, None, None, None)

NoiseLines == { LineOf(k, None, None, None, None) :
                  k \in {"blank", "text", "badjson", "primitive"} }

\* Objects without a numeric id: notifications and objects that are neither.
NoIdLines ==
  { LineOf("object", id, m, r, None) :
      id \in {None, Some(IdNull)},
      m \in {None, Some("tool_status")},
      r \in {None, Some(ResultObj(None, Some(TRUE)))} }

\* Objects with a numeric id: a result, nothing, an error, an error next to
\* a result; and with a method as well (the shape of a Request).
IdLines ==
  { LineOf("object", Some(IdNum(i)), None, r, None) :
      i \in 1..MaxCalls, r \in {None} \cup {Some(x) : x \in SomeResults} }
  \cup { LineOf("object", Some(IdNum(i)), None, r, Some(e)) :
      i \in 1..MaxCalls, r \in {None, Some(ResultObj(Some(7), None))}, e \in Errors }
  \cup { LineOf("object", Some(IdNum(i)), Some("tool_status"), r, None) :
      i \in 1..MaxCalls, r \in {None, Some(ResultObj(Some(7), None))} }

Lines == NoiseLines \cup NoIdLines \cup IdLines

\* Well-formed Responses: an id and either a result or an error.
ResponseLines ==
  { LineOf("object", Some(IdNum(i)), None, Some(r), None) :
      i \in 1..MaxCalls, r \in Results }
  \cup { LineOf("object", Some(IdNum(i)), None, None, Some(e)) :
      i \in 1..MaxCalls, e \in Errors }

\* What kind of message a line is, as section 4.2 of the spec names them.
LineClass(line) ==
  CASE line.kind # "object" -> line.kind
    [] line.id = None /\ line.method = None -> "neither"
    [] line.id = None -> "notification"
    [] line.id[1].null -> IF line.method = None THEN "neither" ELSE "notification"
    [] line.method # None -> "request"
    [] line.result # None \/ line.error # None -> "response"
    [] OTHER -> "bare_id"

\* The numeric id a line carries, 0 when it carries none.
LineId(line) ==
  IF line.id # None /\ ~line.id[1].null THEN line.id[1].n ELSE 0

----------------------------------------------------------------------------
(* Promises and async frames *)

\* The settled value of a call()'s promise.  A rejection is `new
\* Error(message)`: an Error object has a message and no code.
NoValue == [result |-> EmptyObj, message |-> None, code |-> None]
Resolved(r) == [result |-> r, message |-> None, code |-> None]
RejectedError(e) == [result |-> EmptyObj, message |-> Some(e.message), code |-> None]

\* What an async subscribe()/unsubscribe() gave back to its caller.
NoRet == [threw |-> FALSE, sub |-> None, ok |-> None]

\* The last operation and what it gave back: the service and the category
\* (or execution id) it was for, the call it made or completed (k, 0 for none), whether it returned
\* without awaiting, the class and id of the line read, the notification
\* emitted, whether an exception left the handler, the value returned, the
\* params of the notification, the listeners invoked and what each was
\* called with, the listener handed to on() or off().
Event(op, s, x, k, imm, line, emit, ret) ==
  [op |-> op, svc |-> s, eventType |-> x, k |-> k, immediate |-> imm,
   class |-> LineClass(line), id |-> LineId(line), emit |-> emit,
   uncaught |-> FALSE, ret |-> ret, params |-> None, delivered |-> <<>>,
   listener |-> ""]

----------------------------------------------------------------------------
(* JavaScript Map *)

MapHas(m, key) == key \in DOMAIN m
MapGet(m, key) == IF key \in DOMAIN m THEN Some(m[key]) ELSE None
MapSet(m, key, v) == [x \in (DOMAIN m) \cup {key} |-> IF x = key THEN v ELSE m[x]]
MapDelete(m, key) == [x \in (DOMAIN m) \ {key} |-> m[x]]

----------------------------------------------------------------------------
(* State after module load and `new BackendService(process)` for each     *)
(* service                                                                 *)

\* A listener as the emitter stores it: the function, and whether once()
\* wrapped it.
Listener(id, once) == [id |-> id, once |-> once]

\* The start-up wait of main(): its promise, its 10 s timer, the final probe.
\* `handled` tells that the then/catch of the final probe has run.
\* App: one entry of state.messages, by its role and the pieces its content
\* is put together from.
Message(role, content) == [role |-> role, content |-> content]

\* App: the state useState starts from, of the fields the handlers below
\* read and write.
InitialState ==
  [isProcessing |-> FALSE, messages |-> <<>>, error |-> None, appMode |-> "setup"]

NoWait == [state |-> "none", timer |-> "none", final |-> 0, handled |-> FALSE]

\* Everything the constructor and the module's initialisers set, given the
\* listeners registered on the client's service and the state of the
\* automatic timer.
Constructed(registry, timer) ==
  /\ requestId = 1
  /\ pendingRequests = [s \in Services |-> <<>>]
  /\ subscriptions = [s \in Services |-> <<>>]
  /\ process = [s \in Services |-> "running"]
  /\ stdin = [s \in Services |-> <<>>]
  /\ calls = <<>>
  /\ frames = <<>>
  /\ ev = Event("init", "", "", 0, FALSE, NoLine, None, NoRet)
  /\ listeners = [s \in Services |-> IF s = Client THEN registry ELSE <<>>]
  /\ isConnected = FALSE
  /\ probes = <<>>
  /\ autoTimer = timer
  /\ wait = NoWait
  /\ mainPc = "load"
  /\ mounted = FALSE
  /\ tornDown = FALSE
  /\ backendConnected = FALSE
  /\ toolExecutions = <<>>
  /\ snapshots = << <<>> >>
  /\ removals = <<>>
  /\ toolLog = <<>>
  /\ now = 0
  /\ chat = InitialState

\* After `new BackendService(process)`: no listener, no timer.
Init == Constructed(<<>>, "none")

\* After `spawnBackend(path)`: the listener that sets isConnected is
\* registered, the automatic probe is scheduled.
InitSpawned ==
  Constructed([m \in {"backend_connected"} |-> <<Listener("setIsConnected", FALSE)>>],
              "armed")

----------------------------------------------------------------------------
(* BackendService.call *)

\* Variant: the counter is read and not advanced.
NextRequestIdSame(rid) == rid

\* `const id = requestId++` leaves requestId one higher.
NextRequestId(rid) == rid + 1

\* The Request written to stdin.
Request(id, method, params) ==
  [jsonrpc |-> "2.0", id |-> id, method |-> method, params |-> params]

Params(x, sub) == [event_type |-> x, subscription_id |-> sub]

\* The async frame that awaits call k.
Frame(op, x, sub) ==
  [op |-> op, eventType |-> x, subId |-> sub, status |-> "awaiting", ret |-> NoRet]

\* The state change of one call(method, params) on service s, made on behalf
\* of the async frame fr: a new promise, its callbacks stored under the id,
\* the Request written.
call(s, method, params, fr) ==
  LET id == requestId
      k == Len(calls) + 1
  IN /\ requestId' = NextRequestId(requestId)
     /\ calls' = Append(calls, [svc |-> s, id |-> id, method |-> method,
                                state |-> "pending", value |-> NoValue,
                                settles |-> 0, by |-> NoLine])
     /\ pendingRequests' =
          [pendingRequests EXCEPT ![s] = MapSet(pendingRequests[s], id, k)]
     /\ stdin' = [stdin EXCEPT ![s] = Append(stdin[s], Request(id, method, params))]
     /\ frames' = Append(frames, fr)

\* A direct call() by application code (query_model, ...).
Call(s, method) ==
  /\ Len(calls) < MaxCalls
  /\ call(s, method, Params(None, None), Frame("call", "", None))
  /\ ev' = Event("call", s, "", Len(calls) + 1, FALSE, NoLine, None, NoRet)
  /\ UNCHANGED <<subscriptions, process, listeners, supervisor, ui>>

----------------------------------------------------------------------------
(* EventEmitter: on, once, off, emit                                       *)

\* Fields of a JavaScript object read by name: undefined when absent.
Field(obj, name) == IF name \in DOMAIN obj THEN obj[name] ELSE None

\* The same for a field that holds a plain value: the value or undefined.
Opt(obj, name) == IF name \in DOMAIN obj THEN Some(obj[name]) ELSE None

\* `notification.params`
ParamsOf(line) == Field(line, "params")

\* A notification line with params.
Notification(method, params) ==
  [kind |-> "object", id |-> None, method |-> Some(method), result |-> None,
   error |-> None, params |-> params]

ListenersOf(registry, method) ==
  IF method \in DOMAIN registry THEN registry[method] ELSE <<>>

\* on(method, listener) and once(method, listener) append to the list.
AddListener(registry, method, l) ==
  MapSet(registry, method, Append(ListenersOf(registry, method), l))

\* The sequence without its element at position i.
RemoveAt(seq, i) == [j \in 1..(Len(seq) - 1) |-> IF j < i THEN seq[j] ELSE seq[j + 1]]

\* off(method, listener) removes the most recently added instance of that
\* listener and no other.
RemoveListener(registry, method, id) ==
  LET ls == ListenersOf(registry, method)
      at == {i \in 1..Len(ls) : ls[i].id = id}
  IN IF at = {}
       THEN registry
       ELSE MapSet(registry, method,
                   RemoveAt(ls, CHOOSE i \in at : \A j \in at : j <= i))

----------------------------------------------------------------------------
(* The listeners of the program                                            *)

\* The execution ids the worker names.
ExecutionIds == {"E1", "E2"}

\* The tools legacy events name.
Tools == {"read", "write"}

\* A tool execution as a tool_status notification carries it.
Execution(id, status, endTime) == [id |-> id, status |-> status, endTime |-> endTime]

\* ToolStatusUpdate: {type, execution}
ToolStatusUpdate(type, execution) == [type |-> type, execution |-> execution]

\* Variant: the updater writes into the Map object it was given and returns
\* that object.
NewMapInPlace(objects, content) == [objects EXCEPT ![Len(objects)] = content]

\* `const newMap = new Map(prev)` ... `return newMap`: the updater builds its
\* result in a Map object of its own; the objects that were the state before
\* keep their content.
NewMap(objects, content) == Append(objects, content)

\* Variant: a record already in the map is kept.
ToolExecutionsAfterFirstWins(prev, type, execution) ==
  IF type \in {"started", "updated"} /\ ~MapHas(prev, execution.id)
    THEN MapSet(prev, execution.id, execution)
    ELSE prev

\* The map the updater of handleToolStatus returns: a copy of prev with the
\* execution set under its id for "started" and "updated".
ToolExecutionsAfter(prev, type, execution) ==
  IF type \in {"started", "updated"}
    THEN MapSet(prev, execution.id, execution)
    ELSE prev

\* `type === "updated"` and `execution.status !== "running" &&
\* execution.endTime`: the removal timer is set.
SchedulesRemoval(type, execution) ==
  type = "updated" /\ execution.status # "running" /\ execution.endTime # None

\* Variant: the updater returns the map as it found it.
AfterRemovalKept(current, id) == current

\* The updater of the removal timer: a copy of current without the id.
AfterRemoval(current, id) == MapDelete(current, id)

\* The state listeners read and write, and the record of an emit: who was
\* invoked with what, and whether a listener threw.
Scope(s) ==
  [registry |-> listeners[s], isConnected |-> isConnected, wait |-> wait,
   backendConnected |-> backendConnected, toolExecutions |-> toolExecutions,
   snapshots |-> snapshots, removals |-> removals, toolLog |-> toolLog, now |-> now,
   chat |-> chat,
   delivered |-> <<>>, threw |-> FALSE]

\* Listeners handed to on() by code outside the program's own components: two
\* that return and one that throws.
OtherListeners == {"first", "second", "faulty"}
Faulty == {"faulty"}

\* backend.ts: `() => { (backend as any).isConnected = true; }`
SetIsConnected(params, st) == [st EXCEPT !.isConnected = TRUE]

\* cli.ts onConnected: clearTimeout(connectionTimeout), then `params.models`
\* is read (a TypeError when params is undefined), then resolve().
OnConnected(params, st) ==
  LET cleared == [st.wait EXCEPT !.timer = IF @ = "armed" THEN "cleared" ELSE @]
  IN IF params = None
       THEN [st EXCEPT !.wait = cleared, !.threw = TRUE]
       ELSE [st EXCEPT !.wait = [cleared EXCEPT !.state =
                                   IF @ = "waiting" THEN "resolved" ELSE @]]

\* Variant: the first error rejects the wait.
OnErrorRejects(params, st) ==
  [st EXCEPT !.wait.state = IF @ = "waiting" THEN "rejected" ELSE @]

\* cli.ts onError: its body is empty.
OnError(params, st) == st

\* App: backend_connected listener, `backendConnected: true`.
AppConnected(params, st) == [st EXCEPT !.backendConnected = TRUE]

\* App: backend_connection_error listener: `error: params.error`,
\* `backendConnected: false`, a system message appended.
AppConnectionError(params, st) ==
  [st EXCEPT !.backendConnected = FALSE,
             !.chat.error = Opt(params[1], "error"),
             !.chat.messages =
                Append(@, Message("system", <<"Failed to connect to backend: ",
                                              Opt(params[1], "error")>>))]

\* App: processing_started listener, `isProcessing: true`.
ProcessingStarted(params, st) == [st EXCEPT !.chat.isProcessing = TRUE]

\* App: processing_complete listener, `isProcessing: false`.
ProcessingComplete(params, st) == [st EXCEPT !.chat.isProcessing = FALSE]

\* App: processing_error listener: `isProcessing: false`, `error:
\* params.error`, a system message appended.
ProcessingError(params, st) ==
  [st EXCEPT !.chat.isProcessing = FALSE,
             !.chat.error = Opt(params[1], "error"),
             !.chat.messages =
                Append(@, Message("system", <<"Error: ", Opt(params[1], "error")>>))]

\* `execution.status !== "running" && execution.endTime`: an update that
\* puts a tool message into the chat history (an endTime of 0 is falsy).
Completes(type, execution) ==
  /\ type = "updated"
  /\ execution.status # "running"
  /\ execution.endTime # None /\ execution.endTime # Some(0)

\* App: handleToolStatus.  `const { type, execution } = params` is a
\* TypeError when params is undefined.
HandleToolStatus(params, st) ==
  IF params = None
    THEN [st EXCEPT !.threw = TRUE]
    ELSE LET type == params[1].type
             execution == params[1].execution
         IN [st EXCEPT
               !.toolExecutions = ToolExecutionsAfter(@, type, execution),
               !.snapshots = NewMap(@, ToolExecutionsAfter(st.toolExecutions, type, execution)),
               !.removals = IF SchedulesRemoval(type, execution)
                              THEN Append(@, execution.id) ELSE @,
               !.toolLog = Append(@, params[1]),
               !.chat.messages =
                  IF Completes(type, execution)
                    THEN Append(@, Message("tool", <<"tool-result-", execution.id>>))
                    ELSE @]

\* A legacy tool_execution event: {tool, status?, ...}.
LegacyEvent(tool, status) == [tool |-> tool, status |-> status]

\* `tool-${params.tool}-${Date.now()}`
ToolId(tool, time) == "tool-" \o tool \o "-" \o ToString(time)

\* The execution the updater of the tool_execution listener builds: status
\* `params.status || "running"`, endTime `params.status !== "running" ?
\* Date.now() : undefined` (set when the event carries no status).
LegacyExecution(event, toolId, time) ==
  Execution(toolId,
            IF event.status = None THEN "running" ELSE event.status[1],
            IF event.status # Some("running") THEN Some(time) ELSE None)

\* `params.status && params.status !== "running"`: the removal timer is set.
LegacySchedulesRemoval(event) ==
  event.status # None /\ event.status # Some("running")

\* App: the tool_execution listener.  `params.tool` is a TypeError when
\* params is undefined.
HandleToolExecution(params, st) ==
  IF params = None
    THEN [st EXCEPT !.threw = TRUE]
    ELSE LET toolId == ToolId(params[1].tool, st.now)
             execution == LegacyExecution(params[1], toolId, st.now)
         IN [st EXCEPT
               !.toolExecutions = MapSet(@, toolId, execution),
               !.snapshots = NewMap(@, MapSet(st.toolExecutions, toolId, execution)),
               !.removals = IF LegacySchedulesRemoval(params[1])
                              THEN Append(@, toolId) ELSE @,
               !.toolLog = Append(@, ToolStatusUpdate("legacy", execution)),
               !.chat.messages = Append(@, Message("tool", <<"[", params[1].tool, "] ">>))]

\* One listener called with params.
Invoke(l, params, st) ==
  LET called == [st EXCEPT !.delivered = Append(@, <<l.id, params>>)]
  IN CASE l.id = "setIsConnected" -> SetIsConnected(params, called)
       [] l.id = "onConnected" -> OnConnected(params, called)
       [] l.id = "onError" -> OnError(params, called)
       [] l.id = "appConnected" -> AppConnected(params, called)
       [] l.id = "appConnectionError" -> AppConnectionError(params, called)
       [] l.id = "processingStarted" -> ProcessingStarted(params, called)
       [] l.id = "processingComplete" -> ProcessingComplete(params, called)
       [] l.id = "processingError" -> ProcessingError(params, called)
       [] l.id = "handleToolStatus" -> HandleToolStatus(params, called)
       [] l.id = "handleToolExecution" -> HandleToolExecution(params, called)
       [] l.id \in Faulty -> [called EXCEPT !.threw = TRUE]
       [] OTHER -> called

\* emit(method, params) over a copy of the method's list, in order: a once()
\* listener is removed before it is called; what a listener throws leaves
\* emit at once, the listeners after it are not called.
RECURSIVE Emit(_, _, _, _)
Emit(ls, method, params, st) ==
  IF ls = <<>> \/ st.threw
    THEN st
    ELSE LET l == Head(ls)
             removed == IF l.once
                          THEN [st EXCEPT !.registry = RemoveListener(@, method, l.id)]
                          ELSE st
         IN Emit(Tail(ls), method, params, Invoke(l, params, removed))

\* What `this.emit(method, params)` on service s leaves behind.
Emitted(s, method, params) ==
  Emit(ListenersOf(listeners[s], method), method, params, Scope(s))

\* The variables listeners write take the values st holds.
Written(s, st) ==
  /\ listeners' = [listeners EXCEPT ![s] = st.registry]
  /\ isConnected' = st.isConnected
  /\ wait' = st.wait
  /\ backendConnected' = st.backendConnected
  /\ toolExecutions' = st.toolExecutions
  /\ snapshots' = st.snapshots
  /\ removals' = st.removals
  /\ toolLog' = st.toolLog
  /\ chat' = st.chat

\* backend.on(method, listener) by a component.
On(s, method, id) ==
  /\ Len(ListenersOf(listeners[s], method)) < MaxListeners
  /\ listeners' = [listeners EXCEPT ![s] = AddListener(@, method, Listener(id, FALSE))]
  /\ ev' = [Event("on", s, method, 0, FALSE, NoLine, None, NoRet)
              EXCEPT !.listener = id]
  /\ UNCHANGED <<service, supervisor, ui>>

\* backend.off(method, listener) by a component.
Off(s, method, id) ==
  /\ listeners' = [listeners EXCEPT ![s] = RemoveListener(@, method, id)]
  /\ ev' = [Event("off", s, method, 0, FALSE, NoLine, None, NoRet)
              EXCEPT !.listener = id]
  /\ UNCHANGED <<service, supervisor, ui>>

----------------------------------------------------------------------------
(* The readline "line" handler of the constructor *)

\* JSON.parse(line) throws a SyntaxError.
ParseThrows(line) == line.kind \in {"text", "badjson"}

\* `"id" in message` throws a TypeError when message is not an object.
InThrows(line) == line.kind = "primitive"

\* `"id" in message && message.id !== null`
IsResponse(message) == message.id # None /\ ~message.id[1].null

\* `else if ("method" in message)`
IsNotification(message) == ~IsResponse(message) /\ message.method # None

\* `response.result || {}`
ResultOrEmpty(response) ==
  IF response.result = None THEN EmptyObj ELSE response.result[1]

\* reject(new Error(response.error.message)) or resolve(response.result || {})
Settlement(response) ==
  IF response.error # None
    THEN [state |-> "rejected", value |-> RejectedError(response.error[1])]
    ELSE [state |-> "resolved", value |-> Resolved(ResultOrEmpty(response))]

\* Variant: the oldest pending entry is taken, whatever id the line names.
PendingForOldest(pending, response) ==
  IF DOMAIN pending = {}
    THEN None
    ELSE Some(pending[CHOOSE i \in DOMAIN pending : \A j \in DOMAIN pending : i <= j])

\* `this.pendingRequests.get(response.id)`
PendingFor(pending, response) == MapGet(pending, response.id[1].n)

\* Variant: the entry is left in the map.
PendingAfterKept(pending, response) == pending

\* `this.pendingRequests.delete(response.id)` after the callbacks ran
PendingAfter(pending, response) == MapDelete(pending, response.id[1].n)

\* Calling resolve or reject of promise c: a promise settles once, a later
\* invocation of its callbacks is counted and changes nothing else.
Settle(c, response) ==
  IF c.state = "pending"
    THEN [c EXCEPT !.state = Settlement(response).state,
                   !.value = Settlement(response).value,
                   !.settles = c.settles + 1,
                   !.by = response]
    ELSE [c EXCEPT !.settles = c.settles + 1]

\* Variant: no catch block, what is thrown leaves the handler.
TryCatchMissing(thrown) == thrown

\* The try block spans the parse and the whole dispatch, and the catch block
\* rethrows nothing: whatever was thrown inside does not leave the handler.
TryCatch(thrown) == FALSE

OnLine(s, line) ==
  LET handled == line.kind = "object"
      pending == IF handled /\ IsResponse(line)
                   THEN PendingFor(pendingRequests[s], line) ELSE None
      emit == IF handled /\ IsNotification(line) THEN line.method ELSE None
      k == IF pending = None THEN 0 ELSE pending[1]
      st == IF emit = None THEN Scope(s) ELSE Emitted(s, emit[1], ParamsOf(line))
      thrown == ParseThrows(line) \/ InThrows(line) \/ st.threw
  IN /\ IF pending # None
          THEN /\ calls' = [calls EXCEPT ![k] = Settle(calls[k], line)]
               /\ pendingRequests' =
                    [pendingRequests EXCEPT ![s] = PendingAfter(pendingRequests[s], line)]
          ELSE UNCHANGED <<calls, pendingRequests>>
     /\ Written(s, st)
     /\ ev' = [Event("line", s, "", k, FALSE, line, emit, NoRet)
                 EXCEPT !.uncaught = TryCatch(thrown), !.params = ParamsOf(line),
                        !.delivered = st.delivered]
     /\ UNCHANGED <<requestId, subscriptions, process, stdin, frames>>
     /\ UNCHANGED <<probes, autoTimer, mainPc, mounted, tornDown, now>>

----------------------------------------------------------------------------
(* BackendService.subscribe / unsubscribe *)

\* Variant: the registry is not consulted.
SubscribeHasNever(registry, x) == FALSE

\* `if (this.subscriptions.has(eventType))` of subscribe
SubscribeHas(registry, x) == MapHas(registry, x)

\* Variant: the request is made whether or not a Subscription is recorded.
UnsubscribeMissingNever(registry, x) == FALSE

\* `if (!this.subscriptions.has(eventType))` of unsubscribe
UnsubscribeMissing(registry, x) == ~MapHas(registry, x)

\* `this.subscriptions.get(eventType) as SubscriptionId`
StoredId(registry, x) == IF MapHas(registry, x) THEN registry[x] ELSE None

\* subscribe(eventType) up to its return or its await: what it changes in
\* the service.
subscribe(s, x) ==
  IF SubscribeHas(subscriptions[s], x)
    THEN UNCHANGED <<requestId, pendingRequests, stdin, calls, frames>>
    ELSE call(s, "subscribe", Params(Some(x), None), Frame("subscribe", x, None))

\* subscribe(eventType) called by a component.
Subscribe(s, x) ==
  /\ SubscribeHas(subscriptions[s], x) \/ Len(calls) < MaxCalls
  /\ subscribe(s, x)
  /\ ev' = IF SubscribeHas(subscriptions[s], x)
             THEN Event("subscribe", s, x, 0, TRUE, NoLine, None,
                        [NoRet EXCEPT !.sub = StoredId(subscriptions[s], x)])
             ELSE Event("subscribe", s, x, Len(calls) + 1, FALSE, NoLine, None, NoRet)
  /\ UNCHANGED <<subscriptions, process, listeners, supervisor, ui>>

\* unsubscribe(eventType) up to its return or its await: what it changes in
\* the service.
unsubscribe(s, x) ==
  IF UnsubscribeMissing(subscriptions[s], x)
    THEN UNCHANGED <<requestId, pendingRequests, stdin, calls, frames>>
    ELSE LET subId == StoredId(subscriptions[s], x)
         IN call(s, "unsubscribe", Params(Some(x), subId),
                 Frame("unsubscribe", x, subId))

\* unsubscribe(eventType) called by a component.
Unsubscribe(s, x) ==
  /\ UnsubscribeMissing(subscriptions[s], x) \/ Len(calls) < MaxCalls
  /\ unsubscribe(s, x)
  /\ ev' = IF UnsubscribeMissing(subscriptions[s], x)
             THEN Event("unsubscribe", s, x, 0, TRUE, NoLine, None,
                        [NoRet EXCEPT !.ok = Some(FALSE)])
             ELSE Event("unsubscribe", s, x, Len(calls) + 1, FALSE, NoLine, None, NoRet)
  /\ UNCHANGED <<subscriptions, process, listeners, supervisor, ui>>

\* `this.subscriptions.set(eventType, subId)`
RegistryAfterSubscribe(registry, x, subId) == MapSet(registry, x, subId)

\* Variant: the record is dropped whatever the worker answered.
RegistryAfterUnsubscribeAlways(registry, x, success) == MapDelete(registry, x)

\* `if (success) { this.subscriptions.delete(eventType); }`
RegistryAfterUnsubscribe(registry, x, success) ==
  IF success = Some(TRUE) THEN MapDelete(registry, x) ELSE registry

\* The rest of subscribe() after `await this.call(...)` settled.
ResumeSubscribe(k) ==
  LET c == calls[k]
      f == frames[k]
      subId == c.value.result.subscription_id
  IN /\ f.op = "subscribe" /\ f.status = "awaiting" /\ c.state # "pending"
     /\ IF c.state = "resolved"
          THEN /\ subscriptions' =
                    [subscriptions EXCEPT ![c.svc] =
                       RegistryAfterSubscribe(subscriptions[c.svc], f.eventType, subId)]
               /\ frames' = [frames EXCEPT ![k].status = "returned", ![k].ret.sub = subId]
          ELSE /\ frames' = [frames EXCEPT ![k].status = "threw", ![k].ret.threw = TRUE]
               /\ UNCHANGED subscriptions
     /\ ev' = Event("subscribe_resume", c.svc, f.eventType, k, FALSE, NoLine, None,
                     frames'[k].ret)
     /\ UNCHANGED <<requestId, pendingRequests, process, stdin, calls>>
     /\ UNCHANGED <<listeners, supervisor, ui>>

\* The rest of unsubscribe() after `await this.call(...)` settled.
ResumeUnsubscribe(k) ==
  LET c == calls[k]
      f == frames[k]
      success == c.value.result.success
  IN /\ f.op = "unsubscribe" /\ f.status = "awaiting" /\ c.state # "pending"
     /\ IF c.state = "resolved"
          THEN /\ subscriptions' =
                    [subscriptions EXCEPT ![c.svc] =
                       RegistryAfterUnsubscribe(subscriptions[c.svc], f.eventType, success)]
               /\ frames' = [frames EXCEPT ![k].status = "returned", ![k].ret.ok = success]
          ELSE /\ frames' = [frames EXCEPT ![k].status = "threw", ![k].ret.threw = TRUE]
               /\ UNCHANGED subscriptions
     /\ ev' = Event("unsubscribe_resume", c.svc, f.eventType, k, FALSE, NoLine, None,
                     frames'[k].ret)
     /\ UNCHANGED <<requestId, pendingRequests, process, stdin, calls>>
     /\ UNCHANGED <<listeners, supervisor, ui>>

----------------------------------------------------------------------------
(* The worker process *)

\* Variant: the signal reaches a worker whatever its status.
SignalledAlways(status) == "killed"

\* `this.process.kill()`: a running worker is signalled; for one already
\* signalled or gone ChildProcess.kill() has nothing to do and returns.
Signalled(status) == IF status = "running" THEN "killed" ELSE status

\* kill(): `this.process.kill()` signals the worker and touches nothing else.
Kill(s) ==
  /\ process' = [process EXCEPT ![s] = Signalled(@)]
  /\ ev' = Event("kill", s, "", 0, FALSE, NoLine, None, NoRet)
  /\ UNCHANGED <<requestId, pendingRequests, subscriptions, stdin, calls, frames>>
  /\ UNCHANGED <<listeners, supervisor, ui>>

\* The worker exits (killed or by itself) and the "exit" handler runs: its
\* body is empty.
Exit(s) ==
  /\ process[s] # "exited"
  /\ process' = [process EXCEPT ![s] = "exited"]
  /\ ev' = Event("exit", s, "", 0, FALSE, NoLine, None, NoRet)
  /\ UNCHANGED <<requestId, pendingRequests, subscriptions, stdin, calls, frames>>
  /\ UNCHANGED <<listeners, supervisor, ui>>

----------------------------------------------------------------------------

----------------------------------------------------------------------------
(* spawnBackend: checkConnection and the automatic probe *)

\* One invocation of checkConnection: who started it, where it stands
\* ("models": awaiting the race, "version": awaiting get_version, "done"),
\* its two calls, its 10 s timer, whether the timer won the race, the
\* notifications it emitted, what its promise settled with.
Probe(origin, k1) ==
  [origin |-> origin, pc |-> "models", k1 |-> k1, k2 |-> 0, timer |-> "armed",
   timedOut |-> FALSE, emitted |-> <<>>, ret |-> None, threw |-> FALSE]

\* Variant: the notification carries no model list.
ConnectedParamsWithoutModels(result, version) ==
  [success |-> TRUE, message |-> "Successfully connected to backend",
   models |-> None, version |-> version]

\* The data of backend_connected: `models: result.models, version`.
ConnectedParams(result, version) ==
  [success |-> TRUE, message |-> "Successfully connected to backend",
   models |-> Field(result, "models"), version |-> version]

\* The data of backend_connection_error.
ConnectionErrorParams(message) ==
  [success |-> FALSE, message |-> "Failed to connect to backend server",
   error |-> message]

\* checkConnection() up to its first await: the get_available_models call is
\* made and the timer of the race is set.
StartProbe(origin) ==
  /\ call(Client, "get_available_models", Params(None, None),
          Frame("checkConnection", origin, None))
  /\ probes' = Append(probes, Probe(origin, Len(calls) + 1))

\* Timers fire in the order of their deadlines.  The automatic timer (1000
\* ms, set at spawn) is due first; the race timers (10000 ms each) are due in
\* the order the probes were started; the timer of the start-up wait (10000
\* ms) is set right after the race timer of main()'s probe, before the
\* automatic probe and the final probe exist.
ProbeTimerDue(p) ==
  /\ probes[p].timer = "armed"
  /\ autoTimer # "armed"
  /\ \A q \in 1..(p - 1) : probes[q].timer = "fired"
  /\ probes[p].origin # "main" => wait.timer # "armed"

WaitTimerDue ==
  /\ wait.timer = "armed"
  /\ autoTimer # "armed"
  /\ \A q \in 1..Len(probes) : probes[q].origin = "main" => probes[q].timer = "fired"

\* The automatic timer of spawnBackend fires: one checkConnection().  main()
\* runs at module load, before any timer.
AutoTimer ==
  /\ autoTimer = "armed" /\ mainPc # "load"
  /\ autoTimer' = "fired"
  /\ StartProbe("auto")
  /\ ev' = Event("auto_timer", Client, "", Len(calls) + 1, FALSE, NoLine, None, NoRet)
  /\ UNCHANGED <<subscriptions, process, listeners, isConnected, wait, mainPc, ui>>

\* The 10 s timer of a probe's race fires: the race is lost to it when the
\* call is still pending, otherwise the rejection goes nowhere.
ProbeTimer(p) ==
  /\ ProbeTimerDue(p)
  /\ probes' = [probes EXCEPT ![p].timer = "fired",
                              ![p].timedOut = probes[p].pc = "models"
                                                /\ calls[probes[p].k1].state = "pending"]
  /\ ev' = Event("probe_timer", Client, "", probes[p].k1, FALSE, NoLine, None, NoRet)
  /\ UNCHANGED <<service, listeners, isConnected, autoTimer, wait, mainPc, ui>>

\* The race of probe p has settled and its continuation has not run.
RaceSettled(p) ==
  /\ probes[p].pc = "models"
  /\ probes[p].timedOut \/ calls[probes[p].k1].state # "pending"

\* checkConnection after the race: on a result, get_version is called and
\* awaited; on a rejection or a timeout the catch block emits
\* backend_connection_error and the probe returns false.
ProbeResume(p) ==
  LET c == calls[probes[p].k1]
      failed == probes[p].timedOut \/ c.state = "rejected"
      message == IF probes[p].timedOut THEN "Connection timeout" ELSE c.value.message[1]
      params == Some(ConnectionErrorParams(message))
      st == Emitted(Client, "backend_connection_error", params)
  IN /\ RaceSettled(p)
     /\ IF failed
          THEN /\ Written(Client, st)
               /\ probes' = [probes EXCEPT
                    ![p].pc = "done",
                    ![p].emitted = Append(@, <<"backend_connection_error", params>>),
                    ![p].ret = IF st.threw THEN None ELSE Some(FALSE),
                    ![p].threw = st.threw]
               /\ ev' = [Event("probe_resume", Client, "", probes[p].k1, FALSE, NoLine,
                               Some("backend_connection_error"), NoRet)
                           EXCEPT !.params = params, !.delivered = st.delivered]
               /\ UNCHANGED service
          ELSE /\ call(Client, "get_version", Params(None, None),
                       Frame("checkConnection", probes[p].origin, None))
               /\ probes' = [probes EXCEPT ![p].pc = "version", ![p].k2 = Len(calls) + 1]
               /\ ev' = Event("probe_resume", Client, "", probes[p].k1, FALSE, NoLine,
                              None, NoRet)
               /\ UNCHANGED <<subscriptions, process, listeners, isConnected, wait, ui>>
     /\ UNCHANGED <<autoTimer, mainPc, mounted, tornDown, now>>

\* The get_version call of probe p has settled and its continuation has not
\* run.
VersionSettled(p) ==
  /\ probes[p].pc = "version"
  /\ calls[probes[p].k2].state # "pending"

\* checkConnection after get_version settled either way: backend_connected
\* is emitted with the models of the first result and the probe returns
\* true.  The emit is inside the try block: what a listener throws is caught
\* and backend_connection_error is emitted as well.
ProbeResumeVersion(p) ==
  LET result == calls[probes[p].k1].value.result
      v == calls[probes[p].k2]
      version == IF v.state = "resolved" THEN Field(v.value.result, "version") ELSE None
      params == Some(ConnectedParams(result, version))
      st1 == Emitted(Client, "backend_connected", params)
      eparams == Some(ConnectionErrorParams("listener"))
      st2 == Emit(ListenersOf(st1.registry, "backend_connection_error"),
                  "backend_connection_error", eparams, [st1 EXCEPT !.threw = FALSE])
      st == IF st1.threw THEN st2 ELSE st1
  IN /\ VersionSettled(p)
     /\ Written(Client, st)
     /\ probes' = [probes EXCEPT
          ![p].pc = "done",
          ![p].emitted = IF st1.threw
                           THEN @ \o << <<"backend_connected", params>>,
                                        <<"backend_connection_error", eparams>> >>
                           ELSE Append(@, <<"backend_connected", params>>),
          ![p].ret = IF st.threw THEN None ELSE Some(~st1.threw),
          ![p].threw = st.threw]
     /\ ev' = [Event("probe_connected", Client, "", probes[p].k2, FALSE, NoLine,
                     Some("backend_connected"), NoRet)
                 EXCEPT !.params = params, !.delivered = st.delivered]
     /\ UNCHANGED <<service, autoTimer, mainPc, mounted, tornDown, now>>

----------------------------------------------------------------------------
(* cli.ts: main() and its start-up wait *)

\* main() up to its first await: a probe is started; the wait's timer is set,
\* onConnected and onError are registered; when the flag is already set the
\* timer is cleared, onError removed and the wait resolved.
MainStart ==
  LET registered ==
        AddListener(AddListener(listeners[Client], "backend_connected",
                                Listener("onConnected", TRUE)),
                    "backend_connection_error", Listener("onError", FALSE))
  IN /\ mainPc = "load"
     /\ mainPc' = "wait"
     /\ StartProbe("main")
     /\ IF isConnected
          THEN /\ wait' = [NoWait EXCEPT !.state = "resolved", !.timer = "cleared"]
               /\ listeners' = [listeners EXCEPT ![Client] =
                    RemoveListener(registered, "backend_connection_error", "onError")]
          ELSE /\ wait' = [NoWait EXCEPT !.state = "waiting", !.timer = "armed"]
               /\ listeners' = [listeners EXCEPT ![Client] = registered]
     /\ ev' = Event("main", Client, "", Len(calls) + 1, FALSE, NoLine, None, NoRet)
     /\ UNCHANGED <<subscriptions, process, isConnected, autoTimer, ui>>

\* The wait's timer fires: one last checkConnection().
WaitTimeout ==
  /\ WaitTimerDue
  /\ wait' = [wait EXCEPT !.timer = "fired", !.final = Len(probes) + 1]
  /\ StartProbe("final")
  /\ ev' = Event("wait_timeout", Client, "", Len(calls) + 1, FALSE, NoLine, None, NoRet)
  /\ UNCHANGED <<subscriptions, process, listeners, isConnected, autoTimer, mainPc, ui>>

\* The final probe has settled and its then/catch has not run.
FinalSettled ==
  /\ wait.final # 0 /\ ~wait.handled
  /\ probes[wait.final].pc = "done"

\* `.then(success => success ? resolve() : reject(...))` and `.catch(() =>
\* reject(...))` of the final probe; a settled promise stays as it is.
WaitFinal ==
  /\ FinalSettled
  /\ wait' = [wait EXCEPT
       !.handled = TRUE,
       !.state = IF @ # "waiting" THEN @
                 ELSE IF probes[wait.final].ret = Some(TRUE) THEN "resolved"
                 ELSE "rejected"]
  /\ ev' = Event("wait_final", Client, "", probes[wait.final].k1, FALSE, NoLine, None,
                 NoRet)
  /\ UNCHANGED <<service, listeners, isConnected, probes, autoTimer, mainPc, ui>>

\* The wait has settled and main() has not gone on.
WaitSettled == mainPc = "wait" /\ wait.state \in {"resolved", "rejected"}

\* main() after the wait: get_available_models is called; a rejected wait
\* is rethrown to the outer catch, which kills the worker and exits.
MainContinue ==
  /\ WaitSettled
  /\ IF wait.state = "resolved"
       THEN /\ mainPc' = "models"
            /\ call(Client, "get_available_models", Params(None, None),
                    Frame("main", "", None))
            /\ UNCHANGED process
       ELSE /\ mainPc' = "exited"
            /\ process' = [process EXCEPT ![Client] = IF @ = "running" THEN "killed" ELSE @]
            /\ UNCHANGED <<requestId, pendingRequests, stdin, calls, frames>>
  /\ ev' = Event("main_continue", Client, "", 0, FALSE, NoLine, None, NoRet)
  /\ UNCHANGED <<subscriptions, listeners, isConnected, probes, autoTimer, wait, ui>>

\* The call of main() for the models has settled.
ModelsSettled ==
  /\ mainPc = "models"
  /\ \E k \in 1..Len(frames) : frames[k].op = "main" /\ calls[k].state # "pending"

\* main() after its models call: interactive mode is started; a rejection
\* goes to the outer catch, which kills the worker and exits.
MainModels ==
  LET k == CHOOSE k \in 1..Len(frames) : frames[k].op = "main"
  IN /\ ModelsSettled
     /\ IF calls[k].state = "resolved"
          THEN mainPc' = "interactive" /\ UNCHANGED process
          ELSE /\ mainPc' = "exited"
               /\ process' = [process EXCEPT ![Client] =
                                IF @ = "running" THEN "killed" ELSE @]
     /\ ev' = Event("main_models", Client, "", k, FALSE, NoLine, None, NoRet)
     /\ UNCHANGED <<requestId, pendingRequests, subscriptions, stdin, calls, frames>>
     /\ UNCHANGED <<listeners, isConnected, probes, autoTimer, wait, ui>>

----------------------------------------------------------------------------
(* The App component *)

\* The listeners the two effects of App register, in this order.  The one for
\* log_message has an empty body; no line of the specifications below names
\* processing_progress.
AppListeners ==
  << <<"tool_status", "handleToolStatus">>,
     <<"backend_connected", "appConnected">>,
     <<"backend_connection_error", "appConnectionError">>,
     <<"processing_started", "processingStarted">>,
     <<"processing_progress", "processingProgress">>,
     <<"processing_complete", "processingComplete">>,
     <<"processing_error", "processingError">>,
     <<"tool_execution", "handleToolExecution">>,
     <<"log_message", "logMessage">> >>

\* backend.on(method, listener) for each of the first n of them.
RECURSIVE Registered(_, _)
Registered(registry, n) ==
  IF n = 0
    THEN registry
    ELSE AddListener(Registered(registry, n - 1), AppListeners[n][1],
                     Listener(AppListeners[n][2], FALSE))

\* The effects of App run after its first render: handleToolStatus is
\* registered and tool_status subscribed to, then the other listeners are
\* registered.
MountApp(s) ==
  /\ ~mounted
  /\ mounted' = TRUE
  /\ listeners' = [listeners EXCEPT ![s] = Registered(@, Len(AppListeners))]
  /\ subscribe(s, "tool_status")
  /\ ev' = Event("mount", s, "tool_status", 0, FALSE, NoLine, None, NoRet)
  /\ UNCHANGED <<subscriptions, process, supervisor>>
  /\ UNCHANGED <<tornDown, backendConnected, toolExecutions, snapshots, removals, toolLog, now, chat>>

\* removeAllListeners(): no listener of any method stays.
RemoveAllListeners(registry) == <<>>

\* App is unmounted and the cleanups of its effects run, in the order of the
\* effects: off("tool_status", handleToolStatus) and unsubscribe("tool_status"),
\* whose promise is left to itself, then removeAllListeners().  The removal
\* timers are left as they are.
UnmountApp(s) ==
  /\ mounted /\ ~tornDown
  /\ tornDown' = TRUE
  /\ listeners' = [listeners EXCEPT ![s] =
                     RemoveAllListeners(RemoveListener(@, "tool_status", "handleToolStatus"))]
  /\ unsubscribe(s, "tool_status")
  /\ ev' = Event("unmount", s, "tool_status",
                  IF UnsubscribeMissing(subscriptions[s], "tool_status")
                    THEN 0 ELSE Len(calls) + 1,
                  UnsubscribeMissing(subscriptions[s], "tool_status"),
                  NoLine, None, NoRet)
  /\ UNCHANGED <<subscriptions, process, supervisor>>
  /\ UNCHANGED <<mounted, backendConnected, toolExecutions, snapshots, removals, toolLog, now, chat>>

\* A millisecond passes.
Tick ==
  /\ now < MaxNow
  /\ now' = now + 1
  /\ ev' = Event("tick", Client, "", 0, FALSE, NoLine, None, NoRet)
  /\ UNCHANGED <<service, listeners, supervisor>>
  /\ UNCHANGED <<mounted, tornDown, backendConnected, toolExecutions, snapshots, removals, toolLog, chat>>

\* The oldest removal timer fires (all have the same delay): its updater
\* deletes the id it was set for.  Nothing clears a timer; once App is
\* unmounted React drops the update and the state stays as it was.
RemovalTimer ==
  /\ removals # <<>>
  /\ toolExecutions' = IF tornDown
                         THEN toolExecutions
                         ELSE AfterRemoval(toolExecutions, Head(removals))
  /\ snapshots' = IF tornDown
                    THEN snapshots
                    ELSE NewMap(snapshots, AfterRemoval(toolExecutions, Head(removals)))
  /\ removals' = Tail(removals)
  /\ ev' = Event("removal", Client, Head(removals), 0, FALSE, NoLine, None, NoRet)
  /\ UNCHANGED <<service, listeners, supervisor, mounted, tornDown, backendConnected, toolLog, now, chat>>

----------------------------------------------------------------------------
(* The chat: user input, commands, interrupt *)

\* What the user types, as the sequence of its pieces: a space, runs of
\* other characters.
Pieces == {"/help", "/clear", "/exit", "/model", "/", " ", "x", "constructor"}

\* The pieces whose first character is a slash.
SlashPieces == {"/help", "/clear", "/exit", "/model", "/"}

\* The texts the input field submits: `if (value.trim() === "") return`.
Texts ==
  { t \in UNION { [1..n -> Pieces] : n \in 1..MaxInput } :
      \E i \in 1..Len(t) : t[i] # " " }

\* `text.startsWith("/")`
isCommand(text) == Len(text) > 0 /\ text[1] \in SlashPieces

\* `command.split(" ")[0]`: what stands before the first space, the whole
\* text when it has none.
FirstToken(text) ==
  LET spaces == {i \in 1..Len(text) : text[i] = " "}
      first == CHOOSE i \in spaces : \A j \in spaces : i <= j
  IN IF spaces = {} THEN text ELSE SubSeq(text, 1, first - 1)

\* The keys of the commandHandlers record.
CommandNames == {<<"/help">>, <<"/clear">>, <<"/exit">>, <<"/model">>}

\* Of the texts above, the property names every object literal inherits from
\* Object.prototype.
Inherited == {<<"constructor">>}

\* Variant: a key matches when the token begins with it.
HandlerOfPrefix(baseCommand) ==
  CASE Len(baseCommand) >= 1 /\ SubSeq(baseCommand, 1, 1) \in CommandNames
         -> Some(baseCommand[1])
    [] baseCommand \in Inherited -> Some("inherited")
    [] OTHER -> None

\* `commandHandlers[baseCommand]`: the handler stored under the key, the
\* inherited member for a name of Object.prototype, undefined otherwise.
HandlerOf(baseCommand) ==
  CASE baseCommand \in CommandNames -> Some(baseCommand[1])
    [] baseCommand \in Inherited -> Some("inherited")
    [] OTHER -> None

\* handleHelpCommand: without a version in backendInfo one error message;
\* else the command and the help text.
AfterHelp(c, command, version) ==
  IF version = None
    THEN [c EXCEPT !.messages =
            Append(@, Message("system", <<"Error: Backend version not available">>))]
    ELSE [c EXCEPT !.messages =
            @ \o << Message("user", command), Message("system", <<"help">>) >>]

\* handleModelCommand: the command is appended, appMode becomes "setup".
AfterModel(c, command) ==
  [c EXCEPT !.messages = Append(@, Message("user", command)), !.appMode = "setup"]

\* handleClearCommand up to its await: the command is appended, isProcessing
\* is set.
BeforeClear(c, command) ==
  [c EXCEPT !.messages = Append(@, Message("user", command)), !.isProcessing = TRUE]

\* processUserMessage up to its await: isProcessing is set, the user message
\* is appended.
BeforeQuery(c, input) ==
  [c EXCEPT !.isProcessing = TRUE, !.messages = Append(@, Message("user", input))]

\* handleClearHistory: `messages: [], error: null`.
handleClearHistory(c) == [c EXCEPT !.messages = <<>>, !.error = None]

\* The params of query_model (model_index and use_agent are left out).
QueryParams(input) == [prompt |-> input]

\* The handler that runs for a command: that of executeCommand, and
\* processUserMessage when executeCommand returned false.
Handling(command) ==
  LET handler == HandlerOf(FirstToken(command))
  IN [wasHandled |-> handler # None,
      runs |-> IF handler # None THEN handler[1] ELSE "processUserMessage"]

\* handleUserInput(input): a command goes to handleExecuteCommand, that is
\* executeCommand and, when it returned false, processUserMessage; other
\* input goes to processUserMessage.  version is backendInfo.version as the
\* help handler finds it.
HandleUserInput(s, input, version) ==
  LET h == IF isCommand(input)
             THEN Handling(input)
             ELSE [wasHandled |-> FALSE, runs |-> "processUserMessage"]
      calling == h.runs \in {"/clear", "processUserMessage"}
  IN /\ mounted /\ ~tornDown
     /\ CASE h.runs = "processUserMessage" ->
               /\ chat' = BeforeQuery(chat, input)
               /\ call(s, "query_model", QueryParams(input),
                       Frame("processUserMessage", "", None))
               /\ UNCHANGED mainPc
          [] h.runs = "/clear" ->
               /\ chat' = BeforeClear(chat, input)
               /\ call(s, "clear_conversation", None,
                       Frame("handleClearCommand", "", None))
               /\ UNCHANGED mainPc
          [] h.runs = "/help" ->
               /\ chat' = AfterHelp(chat, input, version)
               /\ UNCHANGED <<service, mainPc>>
          [] h.runs = "/model" ->
               /\ chat' = AfterModel(chat, input)
               /\ UNCHANGED <<service, mainPc>>
          [] h.runs = "/exit" ->
               /\ mainPc' = "exited"
               /\ UNCHANGED <<service, chat>>
          [] OTHER -> UNCHANGED <<service, mainPc, chat>>
     /\ ev' = [Event("input", s, "", IF calling THEN Len(calls) + 1 ELSE 0, FALSE,
                     NoLine, None, [NoRet EXCEPT !.ok = Some(h.wasHandled)])
                 EXCEPT !.params = Some(input),
                        !.listener = IF isCommand(input) THEN h.runs ELSE "",
                        !.delivered = IF isCommand(input) THEN <<"executeCommand">> ELSE <<>>]
     /\ UNCHANGED <<subscriptions, process, listeners>>
     /\ UNCHANGED <<isConnected, probes, autoTimer, wait>>
     /\ UNCHANGED <<mounted, tornDown, backendConnected, toolExecutions, snapshots,
                    removals, toolLog, now>>

\* Variant: the history is emptied whatever the call gave.
AfterClearAlways(c, state, value) ==
  [handleClearHistory(c) EXCEPT
     !.messages = Append(@, Message("system", <<"Conversation history cleared successfully.">>)),
     !.isProcessing = FALSE]

\* handleClearCommand after its await: on a result handleClearHistory() and
\* the success message; on a rejection the error message is appended and
\* error is set; isProcessing is false either way.
AfterClear(c, state, value) ==
  IF state = "resolved"
    THEN [handleClearHistory(c) EXCEPT
            !.messages = Append(@, Message("system", <<"Conversation history cleared successfully.">>)),
            !.isProcessing = FALSE]
    ELSE [c EXCEPT
            !.messages = Append(@, Message("system",
                                   <<"Error clearing conversation: ", value.message>>)),
            !.isProcessing = FALSE,
            !.error = value.message]

\* processUserMessage after its await: the assistant's message, or the error
\* message and error; isProcessing is false either way.
AfterQuery(c, state, value) ==
  [c EXCEPT
     !.messages = Append(@, IF state = "resolved"
                              THEN Message("assistant", <<Opt(value.result, "response")>>)
                              ELSE Message("system", <<"Error: ", value.message>>)),
     !.isProcessing = FALSE,
     !.error = IF state = "resolved" THEN @ ELSE value.message]

\* handleInterrupt after its call settled: `.then` and `.catch` both set
\* isProcessing false and append a system message.
AfterInterrupt(c, state, value) ==
  [c EXCEPT
     !.messages = Append(@, IF state = "resolved"
                              THEN Message("system", <<"Processing interrupted by user">>)
                              ELSE Message("system", <<"Failed to interrupt: ", value.message>>)),
     !.isProcessing = FALSE]

\* The rest of a chat handler after the call it awaits settled.  React
\* drops the update once App is unmounted.
ResumeChat(k) ==
  LET c == calls[k]
      f == frames[k]
      after == CASE f.op = "processUserMessage" ->
                      AfterQuery(chat, c.state, c.value)
                 [] f.op = "handleClearCommand" -> AfterClear(chat, c.state, c.value)
                 [] OTHER -> AfterInterrupt(chat, c.state, c.value)
  IN /\ f.op \in {"processUserMessage", "handleClearCommand", "handleInterrupt"}
     /\ f.status = "awaiting" /\ c.state # "pending"
     /\ chat' = IF tornDown THEN chat ELSE after
     /\ frames' = [frames EXCEPT ![k].status = "returned"]
     /\ ev' = [Event("chat_resume", c.svc, "", k, FALSE, NoLine, None, NoRet)
                 EXCEPT !.listener = f.op]
     /\ UNCHANGED <<requestId, pendingRequests, subscriptions, process, stdin, calls>>
     /\ UNCHANGED <<listeners, supervisor>>
     /\ UNCHANGED <<mounted, tornDown, backendConnected, toolExecutions, snapshots,
                    removals, toolLog, now>>

\* handleInterrupt: `if (state.isProcessing)` the interrupt_processing call
\* is made; its `.then`/`.catch` run when it settled.
HandleInterrupt(s) ==
  /\ mounted /\ ~tornDown
  /\ chat.isProcessing
  /\ call(s, "interrupt_processing", None, Frame("handleInterrupt", "", None))
  /\ ev' = Event("interrupt", s, "", Len(calls) + 1, FALSE, NoLine, None, NoRet)
  /\ UNCHANGED <<subscriptions, process, listeners, supervisor, ui>>

----------------------------------------------------------------------------
(* Properties of the correlation of Requests and Responses *)

\* The program state without the record of the last operation.
state == <<service, listeners, supervisor, ui>>

\* A settled promise holds what the line that settled it carries, and that
\* line names the id of the promise's own Request.
OwnResponse(c) ==
  c.state # "pending" =>
    /\ LineId(c.by) = c.id
    /\ IF c.by.error # None
         THEN /\ c.state = "rejected"
              /\ c.value.message = Some(c.by.error[1].message)
         ELSE /\ c.state = "resolved"
              /\ c.value.result =
                   (IF c.by.result = None THEN EmptyObj ELSE c.by.result[1])

\* C1: with any number of calls outstanding and the lines arriving in any
\* order, a call is completed only by a line that names its own id and with
\* that line's result or error; a line naming id i completes the pending
\* call i in the very step it is read, however many other calls are pending,
\* and changes no other call.
C1_CorrelatedById ==
  [][ /\ \A k \in 1..Len(calls') : OwnResponse(calls'[k])
      /\ (ev'.op = "line" /\ ev'.id > 0) =>
           \A k \in 1..Len(calls) :
             IF calls[k].id = ev'.id /\ calls[k].svc = ev'.svc
                  /\ calls[k].state = "pending"
               THEN calls'[k].state # "pending"
               ELSE calls'[k] = calls[k] ]_vars

\* The later of two outstanding calls is resolved while the earlier waits.
C1_Witness ==
  /\ Len(calls) >= 2
  /\ calls[1].state = "pending"
  /\ calls[2].state = "resolved"
  /\ calls[2].value.result \in SomeResults
  /\ ev.op = "line" /\ ev.k = 2

\* C2 (as claimed): when the worker exits, every call pending at that moment
\* is rejected and no entry stays in pendingRequests.
C2_ExitRejectsPending ==
  [][ (process[Client] # "exited" /\ process'[Client] = "exited") =>
        /\ DOMAIN pendingRequests'[Client] = {}
        /\ \A k \in 1..Len(calls) :
             (calls[k].svc = Client /\ calls[k].state = "pending")
               => calls'[k].state = "rejected" ]_vars

C3_CompletedAtMostOnce ==
  [][ /\ \A k \in 1..Len(calls') :
           /\ calls'[k].settles <= 1
           /\ (calls'[k].state = "pending") <=>
                (\E i \in DOMAIN pendingRequests'[calls'[k].svc] :
                    pendingRequests'[calls'[k].svc][i] = k)
      /\ \A k \in 1..Len(calls) :
           calls[k].state # "pending" => calls'[k] = calls[k]
      /\ (ev'.op = "line" /\ ev'.id > 0
            /\ ev'.id \notin DOMAIN pendingRequests[ev'.svc])
           => UNCHANGED state ]_vars

\* A second Response for a completed call has been read and completed nothing.
C3_Witness ==
  \E k \in 1..Len(calls) :
    /\ calls[k].state = "resolved" /\ calls[k].settles = 1
    /\ ev.op = "line" /\ ev.class = "response"
    /\ ev.id = calls[k].id /\ ev.k = 0

\* The Requests written so far, on every service.
AllRequests == UNION { { stdin[s][i] : i \in 1..Len(stdin[s]) } : s \in Services }

\* C4: over all services of the process the ids grow with every call, no two
\* Requests carry the same id, and a line naming the id of a completed call
\* changes no call.
C4_IdsNeverReused ==
  [][ /\ \A j, k \in 1..Len(calls') : j < k => calls'[j].id < calls'[k].id
      /\ \A r1, r2 \in AllRequests' : r1 # r2 => r1.id # r2.id
      /\ Cardinality(AllRequests') = Len(calls')
      /\ (ev'.op = "line"
            /\ \E k \in 1..Len(calls) :
                 calls[k].id = ev'.id /\ calls[k].state # "pending")
           => calls' = calls ]_vars

\* Calls on both services: the Response for the completed call of one service
\* turns up on the other service, whose newer call is pending, and that call
\* stays pending.
C4_Witness ==
  \E j, k \in 1..Len(calls) :
    /\ j < k /\ calls[j].svc # calls[k].svc
    /\ calls[j].state = "resolved" /\ calls[k].state = "pending"
    /\ ev.op = "line" /\ ev.class = "response" /\ ev.svc = calls[k].svc
    /\ ev.id = calls[j].id /\ ev.k = 0

\* C5 (as claimed): a call completed by a line with an error payload is
\* rejected with an error that carries the payload's message and its code.
C5_ErrorCarriesMessageAndCode ==
  \A k \in 1..Len(calls) :
    (calls[k].state # "pending" /\ calls[k].by.error # None) =>
      /\ calls[k].state = "rejected"
      /\ calls[k].value.message = Some(calls[k].by.error[1].message)
      /\ calls[k].value.code = Some(calls[k].by.error[1].code)

\* C6: a line that is not JSON, an object with neither id nor method, and a
\* Response whose id is not pending each leave the handler without an
\* exception, emit nothing and change nothing.
C6_NoiseIgnored ==
  [][ (/\ ev'.op = "line"
       /\ \/ ev'.class \in {"blank", "text", "badjson", "primitive", "neither"}
          \/ /\ ev'.class = "response"
             /\ ev'.id \notin DOMAIN pendingRequests[ev'.svc])
        => /\ UNCHANGED state
           /\ ev'.emit = None
           /\ ~ev'.uncaught ]_vars

\* A line of text is read while a call is pending.
C6_Witness ==
  /\ ev.op = "line" /\ ev.class = "text"
  /\ \E k \in 1..Len(calls) : calls[k].state = "pending"

\* C7 (as claimed): only a line with an id and a result or an error completes
\* a call; a line with a method and an id completes nothing and is not
\* emitted.
C7_RequestShapeIgnored ==
  [][ (ev'.op = "line" /\ ev'.class \in {"request", "bare_id"})
        => /\ UNCHANGED state
           /\ ev'.emit = None ]_vars

----------------------------------------------------------------------------
(* Properties of the subscription registry *)

\* The operation e was a subscribe(x) that handed an id to its caller.
SubscribeReturned(e, x) ==
  /\ e.eventType = x
  /\ ~e.ret.threw
  /\ \/ e.op = "subscribe" /\ e.immediate
     \/ e.op = "subscribe_resume"

\* C8: a subscribe(x) that follows a subscribe(x) which returned an id sends
\* no Request and returns that same id; whenever x is recorded, subscribe(x)
\* returns the recorded id without a Request, and the id a subscribe returns
\* after its Response is the one it recorded; the record of x is a single id.
C8_SubscribeIdempotent ==
  [][ /\ \A x \in EventTypes :
           (SubscribeReturned(ev, x) /\ ev'.op = "subscribe"
              /\ ev'.eventType = x /\ ev'.svc = ev.svc)
             => /\ ev'.immediate
                /\ ev'.ret.sub = ev.ret.sub
                /\ UNCHANGED state
      /\ (ev'.op = "subscribe" /\ MapHas(subscriptions[ev'.svc], ev'.eventType))
           => /\ ev'.immediate
              /\ ev'.ret.sub = subscriptions[ev'.svc][ev'.eventType]
              /\ UNCHANGED state
      /\ (ev'.op = "subscribe_resume" /\ ~ev'.ret.threw)
           => /\ MapHas(subscriptions'[ev'.svc], ev'.eventType)
              /\ subscriptions'[ev'.svc][ev'.eventType] = ev'.ret.sub ]_vars

\* subscribe(x) was answered with an id, and the next subscribe(x) returned
\* that id with one subscribe Request written in all.
C8_Witness ==
  /\ Len(calls) = 1
  /\ frames[1].op = "subscribe" /\ frames[1].status = "returned"
  /\ ev.op = "subscribe" /\ ev.immediate
  /\ ev.ret.sub = frames[1].ret.sub
  /\ ev.ret.sub = Some(8)
  /\ Len(stdin[Client]) = 1

\* The subscribe calls for x of the client whose Response has not arrived.
SubscribesInFlight(x) ==
  { k \in 1..Len(calls) :
      /\ calls[k].svc = Client /\ calls[k].method = "subscribe"
      /\ frames[k].eventType = x /\ calls[k].state = "pending" }

\* No call is pending and no subscribe or unsubscribe awaits its call.
AllCompleted ==
  \A k \in 1..Len(calls) : calls[k].state # "pending" /\ frames[k].status # "awaiting"

\* The ids the worker granted for x that no unsubscribe Request named.
GrantedNotCancelled(x) ==
  { frames[k].ret.sub : k \in { j \in 1..Len(calls) :
      /\ calls[j].svc = Client /\ frames[j].op = "subscribe"
      /\ frames[j].eventType = x /\ frames[j].status = "returned"
      /\ frames[j].ret.sub # None
      /\ \A u \in 1..Len(calls) :
           frames[u].op = "unsubscribe" => frames[u].subId # frames[j].ret.sub } }

\* C29 (as claimed): while a subscribe Request for x awaits its Response no
\* second subscribe Request for x is sent; and once every call is completed
\* each id the worker granted for x and was not asked to cancel is the id
\* the registry records for x.
C29_OneSubscribeInFlight ==
  \A x \in EventTypes :
    /\ Cardinality(SubscribesInFlight(x)) <= 1
    /\ AllCompleted =>
         \A g \in GrantedNotCancelled(x) : StoredId(subscriptions[Client], x) = g

\* C9: unsubscribe(x) with no record of x returns false at once and changes
\* nothing: no id is taken, no Request written, no map touched.
C9_UnsubscribeUnknown ==
  [][ (ev'.op = "unsubscribe"
         /\ ~MapHas(subscriptions[ev'.svc], ev'.eventType))
        => /\ ev'.immediate
           /\ ev'.ret = [NoRet EXCEPT !.ok = Some(FALSE)]
           /\ UNCHANGED state ]_vars

\* unsubscribe(x) returned false while the subscribe(x) call was in flight.
C9_Witness ==
  /\ ev.op = "unsubscribe" /\ ev.immediate /\ ev.ret.ok = Some(FALSE)
  /\ DOMAIN pendingRequests[Client] # {}
  /\ DOMAIN subscriptions[Client] = {}

\* C10: unsubscribe(x) with a record of x writes one unsubscribe Request with
\* the recorded id; when its call resolved with success = true the record of
\* x is removed and true returned; when the call was rejected or resolved
\* with anything else the registry is left as it is.
C10_UnsubscribeOutcome ==
  [][ /\ (ev'.op = "unsubscribe"
            /\ MapHas(subscriptions[ev'.svc], ev'.eventType))
           => /\ ~ev'.immediate
              /\ stdin'[ev'.svc] =
                   Append(stdin[ev'.svc],
                          Request(requestId, "unsubscribe",
                                  Params(Some(ev'.eventType),
                                         subscriptions[ev'.svc][ev'.eventType])))
              /\ subscriptions' = subscriptions
      /\ ev'.op = "unsubscribe_resume"
           => IF /\ calls[ev'.k].state = "resolved"
                 /\ calls[ev'.k].value.result.success = Some(TRUE)
                THEN /\ subscriptions'[ev'.svc] =
                          MapDelete(subscriptions[ev'.svc], ev'.eventType)
                     /\ ~ev'.ret.threw
                     /\ ev'.ret.ok = Some(TRUE)
                ELSE subscriptions' = subscriptions ]_vars

\* The worker answered an unsubscribe with success = false and the record
\* of the category is still the id the Request carried.
C10_Witness ==
  /\ ev.op = "unsubscribe_resume"
  /\ ev.ret.ok = Some(FALSE)
  /\ calls[ev.k].by.result = Some(ResultObj(None, Some(FALSE)))
  /\ MapHas(subscriptions[ev.svc], ev.eventType)
  /\ subscriptions[ev.svc][ev.eventType] = frames[ev.k].subId
  /\ stdin[ev.svc][ev.k].params.subscription_id = frames[ev.k].subId

\* C11 (as claimed): a subscribe or unsubscribe whose call the worker
\* answered with an error hands its caller a value, it does not throw.
C11_FailureIsAValue ==
  \A k \in 1..Len(frames) :
    (frames[k].op \in {"subscribe", "unsubscribe"} /\ calls[k].state = "rejected")
      => frames[k].status # "threw"

----------------------------------------------------------------------------
(* Properties of the notification router *)

\* The listeners of a list that were registered after one that throws.
AfterFaulty(ls) ==
  {i \in 1..Len(ls) : \E j \in 1..(i - 1) : ls[j].id \in Faulty}

\* C17 (as claimed): a notification read from the worker is delivered to
\* every listener registered for its method, each with the notification's
\* params, in registration order; off() removes that listener only; with no
\* listener registered nothing changes and nothing is thrown.
C17_DeliveredInRegistrationOrder ==
  [][ /\ (ev'.op = "line" /\ ev'.emit # None) =>
           LET ls == ListenersOf(listeners[ev'.svc], ev'.emit[1])
           IN /\ ev'.delivered = [i \in 1..Len(ls) |-> <<ls[i].id, ev'.params>>]
              /\ ls = <<>> => (UNCHANGED state /\ ~ev'.uncaught)
      /\ ev'.op = "off" =>
           \A m \in Methods :
             LET ls == ListenersOf(listeners[ev'.svc], m)
                 after == ListenersOf(listeners'[ev'.svc], m)
             IN IF m = ev'.eventType /\ \E i \in 1..Len(ls) : ls[i].id = ev'.listener
                  THEN \E i \in 1..Len(ls) :
                         ls[i].id = ev'.listener /\ after = RemoveAt(ls, i)
                  ELSE after = ls ]_vars

\* C18 (as claimed): the listeners registered after one that throws are
\* still invoked with the notification's params.
C18_ListenersAfterAThrowInvoked ==
  [][ (ev'.op = "line" /\ ev'.emit # None) =>
        LET ls == ListenersOf(listeners[ev'.svc], ev'.emit[1])
        IN \A i \in AfterFaulty(ls) :
             \E d \in 1..Len(ev'.delivered) :
               ev'.delivered[d] = <<ls[i].id, ev'.params>> ]_vars

----------------------------------------------------------------------------
(* Properties of the live map of tool executions *)

\* handleToolStatus has seen, in this order, a started notification for id
\* and then an updated one with a terminal status and an end time.
StartedThenTerminal(log, id) ==
  \E i, j \in 1..Len(log) :
    /\ i < j
    /\ log[i].type = "started" /\ log[i].execution.id = id
    /\ log[j].type = "updated" /\ log[j].execution.id = id
    /\ log[j].execution.status # "running" /\ log[j].execution.endTime # None

\* C19: when, after a started notification for an id, an updated one with a
\* terminal status and an end time is handled, the live map holds under that
\* id the record just received (a map holds one record per id) and its
\* removal is scheduled; when the removal timer of an id fires the id leaves
\* the map.
C19_TerminalShownThenRemoved ==
  [][ /\ ( /\ ev'.op = "line" /\ ev'.params # None
           /\ \E d \in 1..Len(ev'.delivered) : ev'.delivered[d][1] = "handleToolStatus"
           /\ toolLog' # <<>>
           /\ StartedThenTerminal(toolLog', toolLog'[Len(toolLog')].execution.id)
           /\ SchedulesRemoval(toolLog'[Len(toolLog')].type,
                               toolLog'[Len(toolLog')].execution) )
         => LET execution == toolLog'[Len(toolLog')].execution
            IN /\ execution.id \in DOMAIN toolExecutions'
               /\ toolExecutions'[execution.id] = execution
               /\ removals' = Append(removals, execution.id)
      /\ ev'.op = "removal" =>
           /\ Head(removals) = ev'.eventType
           /\ ev'.eventType \notin DOMAIN toolExecutions' ]_vars

\* C19's case: a record that was started and then completed has been removed
\* by its timer.
C19_Witness ==
  /\ ev.op = "removal"
  /\ StartedThenTerminal(toolLog, ev.eventType)
  /\ ev.eventType \notin DOMAIN toolExecutions

\* C20 (as claimed): a record whose status is running is not removed from
\* the live map.
C20_RunningNeverRemoved ==
  [][ \A id \in DOMAIN toolExecutions :
        toolExecutions[id].status = "running" => id \in DOMAIN toolExecutions' ]_vars

\* C21 (as claimed): per id the status held in the live map only moves
\* forward: a record with a terminal status (success or error) keeps that
\* status for as long as it is in the map; it does not become running again
\* and does not change from one terminal status to the other.
C21_StatusMonotone ==
  [][ \A id \in DOMAIN toolExecutions \cap DOMAIN toolExecutions' :
        toolExecutions[id].status # "running"
          => toolExecutions'[id].status = toolExecutions[id].status ]_vars

\* C22 (as claimed): any two legacy tool_execution notifications the tracker
\* has handled produced two distinct records: their synthesized ids differ,
\* also when both name the same tool and arrive in the same millisecond.
C22_LegacyRecordsDistinct ==
  \A i, j \in 1..Len(toolLog) :
    (i < j /\ toolLog[i].type = "legacy" /\ toolLog[j].type = "legacy")
      => toolLog[i].execution.id # toolLog[j].execution.id

\* C25 (as claimed): a started notification naming an id that is already in
\* the live map leaves what an updated notification with the same execution
\* would leave: the same map, and the same removal timers (one more, for
\* that id, when the execution is terminal and has an end time).
C25_StartedOnKnownIdIsUpdate ==
  [][ ( /\ ev'.op = "line" /\ ev'.params # None
        /\ \E d \in 1..Len(ev'.delivered) : ev'.delivered[d][1] = "handleToolStatus"
        /\ ev'.params[1].type = "started"
        /\ ev'.params[1].execution.id \in DOMAIN toolExecutions )
      => LET execution == ev'.params[1].execution
         IN /\ toolExecutions' = ToolExecutionsAfter(toolExecutions, "updated", execution)
            /\ removals' = IF SchedulesRemoval("updated", execution)
                             THEN Append(removals, execution.id)
                             ELSE removals ]_vars

\* C26 (as claimed): once the effects of App are cleaned up no removal timer
\* set before fires and the live map no longer changes; and a removal timer
\* that fires for an id that is not in the map leaves the map as it is.
C26_NoRemovalAfterTeardown ==
  [][ /\ tornDown => (ev'.op # "removal" /\ toolExecutions' = toolExecutions)
      /\ (ev'.op = "removal" /\ ev'.eventType \notin DOMAIN toolExecutions)
           => toolExecutions' = toolExecutions ]_vars

\* The positions of the structured notifications for id in the log.
StructuredFor(log, id) ==
  { i \in 1..Len(log) : log[i].type \in {"started", "updated"} /\ log[i].execution.id = id }

\* No removal timer set for id has fired: as many are pending as were set.
NoExpiryFired(log, pending, id) ==
  Cardinality({ i \in StructuredFor(log, id) : SchedulesRemoval(log[i].type, log[i].execution) })
    = Cardinality({ r \in 1..Len(pending) : pending[r] = id })

\* C27: updates to one id are applied in the order they arrive: after any
\* structured notifications for an id, and as long as no removal timer of the
\* id has fired, the live map holds under the id the execution of the
\* notification for it that arrived last.
C27_LastArrivedIsLive ==
  \A id \in ExecutionIds :
    (StructuredFor(toolLog, id) # {} /\ NoExpiryFired(toolLog, removals, id))
      => LET last == CHOOSE i \in StructuredFor(toolLog, id) :
                       \A j \in StructuredFor(toolLog, id) : j <= i
         IN /\ id \in DOMAIN toolExecutions
            /\ toolExecutions[id] = toolLog[last].execution

\* C27's case: three notifications arrived, the first and the last for E1
\* and with different executions, one for E2 between them; no removal has
\* fired and the map holds the last.
C27_Witness ==
  /\ Len(toolLog) = 3
  /\ StructuredFor(toolLog, "E1") = {1, 3}
  /\ toolLog[1].execution # toolLog[3].execution
  /\ NoExpiryFired(toolLog, removals, "E1")
  /\ toolExecutions["E1"] = toolLog[3].execution

\* C28: every change of the live map (a structured insert or update, a
\* legacy insert, a timed removal) is made in a new Map object: the objects
\* that were the state before, which readers may still hold, keep the
\* content they had.
C28_PublishedMapsUnchanged ==
  [][ \A i \in 1..Len(snapshots) :
        Len(snapshots') >= i /\ snapshots'[i] = snapshots[i] ]_vars

\* C28's case: a structured notification, a legacy event and a timed
\* removal have each changed the map, and the object that was the state
\* before the removal still holds the removed record.
C28_Witness ==
  /\ ev.op = "removal"
  /\ Len(snapshots) >= 4
  /\ ev.eventType \in DOMAIN snapshots[Len(snapshots) - 1]
  /\ ev.eventType \notin DOMAIN snapshots[Len(snapshots)]
  /\ \E i \in 1..Len(toolLog) : toolLog[i].type = "legacy"
  /\ \E i \in 1..Len(toolLog) : toolLog[i].type = "updated"

\* C30 (as claimed): when the cleanup of the tool_status effect ran while
\* the subscribe call of the effect was in flight (its unsubscribe found no
\* record and sent no Request), then once every call is completed the
\* registry records no tool_status Subscription and no id the worker
\* granted for tool_status is left uncancelled.
C30_NoSubscriptionAfterCleanup ==
  ( /\ tornDown /\ AllCompleted
    /\ \A k \in 1..Len(calls) : frames[k].op # "unsubscribe" )
    => /\ ~MapHas(subscriptions[Client], "tool_status")
       /\ GrantedNotCancelled("tool_status") = {}

\* C31 (as claimed): a record synthesized from a legacy tool_execution event
\* has an end time exactly when its status is terminal; one that is running,
\* also by default because the event carried no status, has none.
C31_LegacyEndTimeIffTerminal ==
  \A i \in 1..Len(toolLog) :
    toolLog[i].type = "legacy"
      => (toolLog[i].execution.endTime # None
            <=> toolLog[i].execution.status # "running")

\* App registered listener id for method.
AppOwns(method, id) ==
  \E n \in 1..Len(AppListeners) : AppListeners[n] = <<method, id>>

\* C34 (as claimed): the cleanups of App remove the listeners App registered
\* and no other: a listener someone else registered on the service is still
\* registered for its method afterwards.
C34_OnlyOwnListenersRemoved ==
  [][ ev'.op = "unmount" =>
        \A m \in DOMAIN listeners[Client] :
          \A i \in 1..Len(listeners[Client][m]) :
            ~AppOwns(m, listeners[Client][m][i].id)
              => /\ m \in DOMAIN listeners'[Client]
                 /\ \E j \in 1..Len(listeners'[Client][m]) :
                      listeners'[Client][m][j] = listeners[Client][m][i] ]_vars

\* The ids a record of the live map can have: those the worker names and
\* those the tool_execution listener synthesizes.
RecordIds == ExecutionIds \cup { ToolId(t, n) : t \in Tools, n \in 0..MaxNow }

\* C24 (as claimed): a record of the live map that has a terminal status is
\* eventually removed from the map, whichever notification stored it:
\* a structured updated or started one, with or without an end time, or a
\* legacy event.
C24_TerminalEventuallyRemoved ==
  \A id \in RecordIds :
    (id \in DOMAIN toolExecutions /\ toolExecutions[id].status # "running")
      ~> (id \notin DOMAIN toolExecutions)

----------------------------------------------------------------------------
(* Properties of the connection supervisor *)

\* Who starts a probe: main() at load, the automatic timer, the timer of the
\* start-up wait.  Each does so once.
Origins == {"main", "auto", "final"}

\* C12 (as claimed): no probe emits more than one notification, and every
\* probe started emits one in the end (unless main() has exited the process
\* before).
C12_ExactlyOneNotification ==
  /\ [](\A p \in 1..Len(probes) : Len(probes[p].emitted) <= 1)
  /\ \A p \in 1..Cardinality(Origins) :
       [](Len(probes) >= p =>
            <>(mainPc = "exited"
                 \/ (Len(probes) >= p /\ Len(probes[p].emitted) = 1)))

\* The worker answered probe p: its get_available_models call was resolved
\* before the race timer fired, its get_version call was settled, and the
\* probe ran to its end.
Answered(p) ==
  /\ probes[p].pc = "done" /\ ~probes[p].timedOut
  /\ calls[probes[p].k1].state = "resolved"

\* C13: the automatic timer starts at most one probe; a probe the worker
\* answered has emitted backend_connected once and nothing else, with the
\* model list of the Response to its own get_available_models Request.
C13_OneAutomaticProbeOneConnected ==
  /\ Cardinality({p \in 1..Len(probes) : probes[p].origin = "auto"}) <= 1
  /\ autoTimer = "armed" => \A p \in 1..Len(probes) : probes[p].origin # "auto"
  /\ \A p \in 1..Len(probes) :
       Answered(p) =>
         /\ Len(probes[p].emitted) = 1
         /\ probes[p].emitted[1][1] = "backend_connected"
         /\ probes[p].emitted[1][2][1].models # None
         /\ probes[p].emitted[1][2][1].models =
              Field(calls[probes[p].k1].by.result[1], "models")

\* C13's case: the automatic probe and main()'s probe were both answered,
\* each with its own model list.
C13_Witness ==
  \E p, q \in 1..Len(probes) :
    /\ probes[p].origin = "auto" /\ Answered(p)
    /\ probes[q].origin = "main" /\ Answered(q)
    /\ probes[p].emitted # probes[q].emitted

\* C14 (as claimed): once the flag of the service or of the App says
\* connected, it says so ever after.
C14_ConnectedIsTerminal ==
  [][ /\ isConnected => isConnected'
      /\ (mounted /\ backendConnected) => backendConnected' ]_vars

\* C32 (as claimed): when a probe has succeeded and App is rendered, the
\* state of App comes to say backendConnected (as long as the worker lives
\* and answers every call), whenever the probes emitted backend_connected
\* relative to the moment App registered its listener.
C32_AppLearnsOfConnection ==
  ( /\ mounted
    /\ \E p \in 1..Len(probes) : probes[p].ret = Some(TRUE) )
    ~> \/ backendConnected
       \/ process[Client] # "running"
       \/ \E k \in 1..Len(calls) : calls[k].state = "pending"

\* C15 (as claimed): when the worker has exited while main() waits for the
\* connection, the wait ends.
C15_ExitEndsTheWait ==
  [](( process[Client] = "exited" /\ mainPc = "wait" /\ wait.state = "waiting")
       => <>(wait.state # "waiting"))

\* C16 (as claimed): after the wait timed out no probe follows the final
\* one, and once the final probe has returned and its result was handled the
\* wait has succeeded exactly if the final probe returned true.
C16_WaitFollowsFinalProbe ==
  wait.final # 0 =>
    /\ Len(probes) = wait.final
    /\ wait.handled =>
         (wait.state = "resolved" <=> probes[wait.final].ret = Some(TRUE))

\* Listener id was called by the emit of the last step.
Delivered(e, id) == \E d \in 1..Len(e.delivered) : e.delivered[d][1] = id

\* C33: a backend_connection_error notification leaves the start-up wait as
\* it is; the wait is resolved only by onConnected called with a
\* backend_connected notification, by main() finding the flag set, or by the
\* final probe returning true; it is rejected only when the final probe,
\* started by the timeout, has ended without returning true; once settled it
\* stays as it settled.
C33_WaitSettlesOnlyAsStated ==
  [][ /\ (ev'.emit = Some("backend_connection_error")) => wait'.state = wait.state
      /\ (wait.state # "resolved" /\ wait'.state = "resolved")
           => \/ ev'.emit = Some("backend_connected") /\ Delivered(ev', "onConnected")
              \/ ev'.op = "main" /\ isConnected
              \/ /\ ev'.op = "wait_final"
                 /\ probes[wait.final].ret = Some(TRUE)
      /\ (wait.state # "rejected" /\ wait'.state = "rejected")
           => /\ ev'.op = "wait_final"
              /\ wait.timer = "fired"
              /\ probes[wait.final].origin = "final"
              /\ probes[wait.final].pc = "done"
              /\ probes[wait.final].ret # Some(TRUE)
      /\ wait.state \in {"resolved", "rejected"} => wait'.state = wait.state ]_vars

\* C33's case: a probe has failed during the wait, onError was called with
\* its backend_connection_error, and main() still waits.
C33_Witness ==
  /\ ev.emit = Some("backend_connection_error")
  /\ Delivered(ev, "onError")
  /\ mainPc = "wait" /\ wait.state = "waiting"

\* One client: calls, lines of every shape, the worker's death.
Next ==
  \/ \E m \in CallMethods : Call(Client, m)
  \/ \E line \in Lines : OnLine(Client, line)
  \/ Kill(Client)
  \/ Exit(Client)

Spec == Init /\ [][Next]_vars

\* One client's subscription registry: the worker answers with Responses.
NextSubs ==
  \/ \E x \in EventTypes : Subscribe(Client, x)
  \/ \E x \in EventTypes : Unsubscribe(Client, x)
  \/ \E line \in ResponseLines : OnLine(Client, line)
  \/ \E k \in 1..Len(calls) : ResumeSubscribe(k)
  \/ \E k \in 1..Len(calls) : ResumeUnsubscribe(k)

SpecSubs == Init /\ [][NextSubs]_vars

\* Two services of one process, each with its own worker.
NextShared ==
  \/ \E s \in Services, m \in CallMethods : Call(s, m)
  \/ \E s \in Services, line \in ResponseLines : OnLine(s, line)

SpecShared == Init /\ [][NextShared]_vars

\* Notifications as the worker writes them, with and without params.
RouterLines ==
  { Notification(m, p) :
      m \in Methods,
      p \in {None, Some(ToolStatusUpdate("started", Execution("E1", "running", None)))} }

\* The router: components register and remove listeners, the worker notifies.
NextRouter ==
  \/ \E m \in Methods, l \in OtherListeners : On(Client, m, l)
  \/ \E m \in Methods, l \in OtherListeners : Off(Client, m, l)
  \/ \E line \in RouterLines : OnLine(Client, line)

SpecRouter == Init /\ [][NextRouter]_vars

\* The shapes of a tool_status update: running, completed with an end time,
\* completed without one.
TrackerLines ==
  { Notification("tool_status", Some(ToolStatusUpdate(t, Execution(id, x[1], x[2])))) :
      t \in {"started", "updated"}, id \in ExecutionIds,
      x \in {<<"running", None>>, <<"success", Some(5)>>, <<"error", None>>} }

\* The tracker: App is rendered with a service, the worker reports tool
\* executions, removal timers fire.
NextTracker ==
  \/ MountApp(Client)
  \/ \E line \in TrackerLines : Len(toolLog) < MaxToolEvents /\ OnLine(Client, line)
  \/ RemovalTimer

SpecTracker == Init /\ [][NextTracker]_vars

\* The shapes of a legacy tool_execution event: without a status, running,
\* completed.
LegacyLines ==
  { Notification("tool_execution", Some(LegacyEvent(t, st))) :
      t \in Tools, st \in {None, Some("running"), Some("success")} }

\* Both schemes: the legacy events and the structured updates of one id.
BothLines ==
  LegacyLines \cup { line \in TrackerLines : ParamsOf(line)[1].execution.id = "E1" }

\* The tracker fed by both schemes while the clock advances.
NextLegacy ==
  \/ MountApp(Client)
  \/ \E line \in BothLines : Len(toolLog) < MaxToolEvents /\ OnLine(Client, line)
  \/ RemovalTimer
  \/ Tick

SpecLegacy == Init /\ [][NextLegacy]_vars

\* A timer that is set fires: the event loop runs it once its delay is over.
SpecLegacyFair == SpecLegacy /\ WF_vars(RemovalTimer)

\* The tracker from mount to unmount: the worker answers the subscribe and
\* unsubscribe Requests and reports one tool execution.
TeardownLines ==
  { Notification("tool_status", Some(ToolStatusUpdate("updated", Execution("E1", x[1], x[2])))) :
      x \in {<<"running", None>>, <<"success", Some(5)>>} }

NextTeardown ==
  \/ MountApp(Client)
  \/ UnmountApp(Client)
  \/ \E line \in TeardownLines : Len(toolLog) < MaxToolEvents /\ OnLine(Client, line)
  \/ \E line \in ResponseLines : OnLine(Client, line)
  \/ \E k \in 1..Len(calls) : ResumeSubscribe(k)
  \/ \E k \in 1..Len(calls) : ResumeUnsubscribe(k)
  \/ RemovalTimer

SpecTeardown == Init /\ [][NextTeardown]_vars

\* The same for a service that spawnBackend made: its backend_connected
\* listener is registered before App's.
SpecTeardownSpawned == InitSpawned /\ [][NextTeardown]_vars

\* What a worker answers to a Request: the model list it has at that moment
\* (named after the Request), its version, the assistant's reply, a
\* Subscription id.
ResultFor(request) ==
  CASE request.method = "get_available_models" -> [models |-> Some(request.id)]
    [] request.method = "get_version" -> [version |-> Some("0.1.0")]
    [] request.method = "query_model" -> [response |-> "answer"]
    [] OTHER -> ResultObj(Some(7), None)

\* The Responses a worker can write to the Requests it has not answered: a
\* result or an error.
Answers(s) ==
  UNION { { LineOf("object", Some(IdNum(stdin[s][i].id)), None,
                   Some(ResultFor(stdin[s][i])), None),
            LineOf("object", Some(IdNum(stdin[s][i].id)), None, None,
                   Some(CHOOSE e \in Errors : TRUE)) } :
          i \in {j \in 1..Len(stdin[s]) : stdin[s][j].id \in DOMAIN pendingRequests[s]} }

\* A continuation of a settled promise is waiting to run: it runs before
\* the next timer or line is handled.
Runnable ==
  \/ \E p \in 1..Len(probes) : RaceSettled(p) \/ VersionSettled(p)
  \/ FinalSettled
  \/ WaitSettled
  \/ ModelsSettled
  \/ \E k \in 1..Len(frames) :
       frames[k].op = "subscribe" /\ frames[k].status = "awaiting"
         /\ calls[k].state # "pending"

\* main() has not exited the process.
Running == mainPc # "exited"

\* The continuations.
Continuations ==
  \/ \E p \in 1..Len(probes) : ProbeResume(p)
  \/ \E p \in 1..Len(probes) : ProbeResumeVersion(p)
  \/ WaitFinal
  \/ MainContinue
  \/ MainModels
  \/ \E k \in 1..Len(frames) : ResumeSubscribe(k)

\* The timers.
Timers ==
  \/ AutoTimer
  \/ \E p \in 1..Len(probes) : ProbeTimer(p)
  \/ WaitTimeout

\* The client from the load of cli.ts on, until main() exits the process:
\* continuations run first; then timers fire, the worker answers or exits
\* while it runs, App is rendered once interactive mode is started.
NextStartUp ==
  \/ MainStart
  \/ \E p \in 1..Len(probes) : Running /\ ProbeResume(p)
  \/ \E p \in 1..Len(probes) : Running /\ ProbeResumeVersion(p)
  \/ Running /\ WaitFinal
  \/ Running /\ MainContinue
  \/ Running /\ MainModels
  \/ \E k \in 1..Len(frames) : Running /\ ResumeSubscribe(k)
  \/ Running /\ ~Runnable /\ AutoTimer
  \/ \E p \in 1..Len(probes) : Running /\ ~Runnable /\ ProbeTimer(p)
  \/ Running /\ ~Runnable /\ WaitTimeout
  \/ \E line \in Answers(Client) :
       Running /\ ~Runnable /\ process[Client] = "running" /\ OnLine(Client, line)
  \/ Running /\ ~Runnable /\ process[Client] = "running" /\ Exit(Client)
  \/ Running /\ ~Runnable /\ mainPc = "interactive" /\ MountApp(Client)

SpecStartUp == InitSpawned /\ [][NextStartUp]_vars

\* Timers fire and continuations run; the worker owes nothing.
SpecStartUpFair ==
  /\ SpecStartUp
  /\ WF_vars(MainStart)
  /\ WF_vars(Running /\ Continuations)
  /\ WF_vars(Running /\ ~Runnable /\ Timers)

\* The processing_* notifications of the worker.
ProcessingLines ==
  { Notification("processing_started", Some([use_agent |-> TRUE])),
    Notification("processing_complete", None),
    Notification("processing_error", Some([error |-> "failed"])) }

\* The calls the chat handlers made.
ChatCalls ==
  {k \in 1..Len(frames) :
     frames[k].op \in {"processUserMessage", "handleClearCommand", "handleInterrupt"}}

\* The continuation of a settled call is waiting to run.
ChatRunnable ==
  \E k \in 1..Len(frames) :
    frames[k].status = "awaiting" /\ calls[k].state # "pending"

\* What the user types in the chat specification: a message, /clear.
ChatInputs == {<<"x">>, <<"/clear">>}

\* backendInfo.version as a handler can find it.
Versions == {None, Some("0.1.0")}

\* The chat: App is rendered, the user types messages and commands and
\* presses Esc, the worker answers and notifies.  Continuations run before
\* the next input or line is handled.
NextChat ==
  \/ MountApp(Client)
  \/ \E k \in 1..Len(frames) : ResumeSubscribe(k)
  \/ \E k \in 1..Len(frames) : ResumeChat(k)
  \/ \E input \in ChatInputs, version \in Versions :
       /\ Running /\ ~ChatRunnable
       /\ Cardinality(ChatCalls) < MaxCalls /\ Len(chat.messages) < MaxMessages
       /\ HandleUserInput(Client, input, version)
  \/ /\ Running /\ ~ChatRunnable /\ Cardinality(ChatCalls) < MaxCalls
     /\ HandleInterrupt(Client)
  \/ \E line \in Answers(Client) : Running /\ ~ChatRunnable /\ OnLine(Client, line)
  \/ \E line \in ProcessingLines :
       /\ Running /\ ~ChatRunnable /\ Len(chat.messages) < MaxMessages
       /\ OnLine(Client, line)

SpecChat == Init /\ [][NextChat]_vars

\* The commands: every text the user can type, one at a time.
NextCommands ==
  \/ MountApp(Client)
  \/ \E k \in 1..Len(frames) : ResumeSubscribe(k)
  \/ \E k \in 1..Len(frames) : ResumeChat(k)
  \/ /\ Running /\ ~ChatRunnable /\ mounted
     /\ ChatCalls = {} /\ chat.messages = <<>>
     /\ \E input \in Texts, version \in Versions : HandleUserInput(Client, input, version)
  \/ \E line \in Answers(Client) : Running /\ ~ChatRunnable /\ OnLine(Client, line)

SpecCommands == Init /\ [][NextCommands]_vars

----------------------------------------------------------------------------
(* The chat: claims *)

\* The query_model calls whose handler has not run to its end.
Outstanding(fs) ==
  {k \in 1..Len(fs) : fs[k].op = "processUserMessage" /\ fs[k].status = "awaiting"}

\* C35 (as claimed): isProcessing is true whenever a query_model call is
\* outstanding, and false once the last outstanding query has completed,
\* whatever the order of overlapping user messages, processing_*
\* notifications and interrupts.
C35_ProcessingWhileQueryOutstanding ==
  [][ /\ Outstanding(frames') # {} => chat'.isProcessing
      /\ (Outstanding(frames) # {} /\ Outstanding(frames') = {}) => ~chat'.isProcessing
    ]_vars

\* The continuation of handleClearCommand ran in the step that led here.
ClearResumed(e) == e.op = "chat_resume" /\ e.listener = "handleClearCommand"

Names(text, name) ==
  /\ Len(text) >= 1 /\ text[1] = name
  /\ (Len(text) = 1 \/ text[2] = " ")

\* A Request was written in the step, and it is query_model with the text as
\* its prompt.
SentAsMessage(text) ==
  /\ Len(stdin'[Client]) = Len(stdin[Client]) + 1
  /\ stdin'[Client][Len(stdin'[Client])].method = "query_model"
  /\ stdin'[Client][Len(stdin'[Client])].params = QueryParams(text)

\* C37: for the inputs App hands to executeCommand, it returns true and runs
\* one handler, that of the name, exactly when the first space-delimited
\* token is /help, /clear, /exit or /model, and then no query is sent; for
\* every other input it returns false, runs no command handler and changes
\* nothing, and the input goes to the worker as an ordinary message (what
\* the step changes is what processUserMessage changes).
C37_ExecuteCommandByFirstToken ==
  [][ (ev'.op = "input" /\ ev'.delivered = <<"executeCommand">>) =>
        LET text == ev'.params[1]
        IN IF \E name \in {"/help", "/clear", "/exit", "/model"} : Names(text, name)
             THEN /\ ev'.ret.ok = Some(TRUE)
                  /\ Names(text, ev'.listener)
                  /\ ~SentAsMessage(text)
             ELSE /\ ev'.ret.ok = Some(FALSE)
                  /\ ev'.listener = "processUserMessage"
                  /\ SentAsMessage(text)
                  /\ chat' = BeforeQuery(chat, text)
                  /\ mainPc' = mainPc
    ]_vars

\* C37 witness: "/helpx" was typed, executeCommand returned false and the
\* text was sent as a query.
C37_Witness ==
  /\ ev.op = "input" /\ ev.delivered = <<"executeCommand">>
  /\ ev.params = Some(<<"/help", "x">>)
  /\ ev.ret.ok = Some(FALSE)
  /\ stdin[Client][Len(stdin[Client])].method = "query_model"
  /\ stdin[Client][Len(stdin[Client])].params = QueryParams(<<"/help", "x">>)

====
